---- MODULE Spec2Model ----
(***************************************************************************)
(* A model of panda_guru.py: the command dispatcher (version, flash,       *)
(* recover, bin-info, reset) over a Panda device driver, help, and the     *)
(* version-tag scan of bin_info, whose regular expression is matched the   *)
(* way Python's re engine matches it (greedy, backtracking, leftmost).     *)
(* Offsets are Python's: 0-based, a match covers bytes start..end-1.       *)
(***************************************************************************)
EXTENDS Integers, Sequences, FiniteSets

VARIABLES
    args,       \* the parsed command line: [command, bin, force]
    pc,         \* the position in the running command
    image,      \* the bytes a read of the path args.bin yields
    pos,        \* where finditer resumes its search
    matches,    \* the match objects finditer has yielded: [start, end]
    out,        \* the lines printed so far
    calls,      \* the driver calls made so far, in order
    bootstub,   \* panda.bootstub
    err,        \* the exception that ended the command, or "none"
    parts       \* how the image was put together (tags and filler), or <<>>

vars == <<args, pc, image, pos, matches, out, calls, bootstub, err, parts>>

-----------------------------------------------------------------------------
(* Bounds of the model. *)

MaxPieces == 4
MaxLead == 1

-----------------------------------------------------------------------------
(* Bytes. *)

Ord(c) ==
    CASE c = "-" -> 45 [] c = "." -> 46
      [] c = "0" -> 48 [] c = "1" -> 49 [] c = "2" -> 50 [] c = "3" -> 51
      [] c = "a" -> 97 [] c = "b" -> 98 [] c = "c" -> 99 [] c = "d" -> 100
      [] c = "e" -> 101 [] c = "f" -> 102 [] c = "v" -> 118
      [] c = "A" -> 65 [] c = "B" -> 66 [] c = "D" -> 68 [] c = "E" -> 69
      [] c = "G" -> 71 [] c = "L" -> 76 [] c = "R" -> 82 [] c = "S" -> 83
      [] c = "U" -> 85 [] c = "V" -> 86
      [] c = "X" -> 88 [] c = "Y" -> 89 [] c = "Z" -> 90

Bytes(cs) == [k \in 1..Len(cs) |-> Ord(cs[k])]

\* s[i:j] of Python, for 0 <= i <= j <= len(s)
Slice(s, i, j) == SubSeq(s, i + 1, j)

StartsWith(s, i, lit) ==
    /\ i + Len(lit) <= Len(s)
    /\ \A k \in 1..Len(lit) : s[i + k] = lit[k]

Min(S) == CHOOSE x \in S : \A y \in S : x <= y

-----------------------------------------------------------------------------
(* The version regex of bin_info,                                          *)
(*   ([v0-9.])*-?(DEV)?-([0-9a-f]){8}-(DEBUG)?(RELEASE)?                   *)
(* Each part gives, for a start offset, the end offsets it can reach in    *)
(* the order the backtracking engine tries them (greedy first).            *)

\* the leading class written as ".", any byte but a line feed
LeadClassAny == (0..255) \ {10}

LeadClass == {Ord("v"), Ord(".")} \cup (48..57)
HexClass == (48..57) \cup (97..102)
HexLen == 8
Dash == Bytes(<<"-">>)
DEV == Bytes(<<"D", "E", "V">>)
DEBUG == Bytes(<<"D", "E", "B", "U", "G">>)
RELEASE == Bytes(<<"R", "E", "L", "E", "A", "S", "E">>)

\* the ends of the part that follows (F, from each offset), tried from each
\* end in turn
Then(ends, F) ==
    LET f[k \in 0..Len(ends)] ==
            IF k = 0 THEN << >> ELSE f[k - 1] \o F[ends[k]]
    IN  f[Len(ends)]

\* ([v0-9.])* : the longest run first, then each shorter one
RECURSIVE RunEnd(_, _)
RunEnd(s, i) ==
    IF i < Len(s) /\ s[i + 1] \in LeadClass THEN RunEnd(s, i + 1) ELSE i

\* ([v0-9.])+ : the leading run may not be empty
LeadEndsPlus(s, i) ==
    LET j == RunEnd(s, i) IN [k \in 1..(j - i) |-> j - k + 1]

LeadEnds(s, i) ==
    LET j == RunEnd(s, i) IN [k \in 1..(j - i + 1) |-> j - k + 1]

\* a literal
LitEnds(lit, s, i) ==
    IF StartsWith(s, i, lit) THEN <<i + Len(lit)>> ELSE << >>

\* lit?? : nothing first, then the literal (the lazy quantifier)
OptEndsLazy(lit, s, i) == <<i>> \o LitEnds(lit, s, i)

\* lit? : the literal first, then nothing
OptEnds(lit, s, i) == LitEnds(lit, s, i) \o <<i>>

\* ([0-9a-f]){7}
HexEndsSeven(s, i) ==
    IF /\ i + 7 <= Len(s)
       /\ \A k \in 1..7 : s[i + k] \in HexClass
    THEN <<i + 7>> ELSE << >>

\* ([0-9a-f]){7,8}
HexEndsUpTo(s, i) ==
    (IF /\ i + 8 <= Len(s)
        /\ \A k \in 1..8 : s[i + k] \in HexClass
     THEN <<i + 8>> ELSE << >>) \o HexEndsSeven(s, i)

\* ([0-9a-f]){8}
HexEnds(s, i) ==
    IF /\ i + HexLen <= Len(s)
       /\ \A k \in 1..HexLen : s[i + k] \in HexClass
    THEN <<i + HexLen>> ELSE << >>

\* (RELEASE)?(DEBUG)? : the two optional words in the other order
SuffixEndsSwapped(s, i) ==
    Then(OptEnds(RELEASE, s, i), [e \in 0..Len(s) |-> OptEnds(DEBUG, s, e)])

\* (DEBUG)?(RELEASE)?
SuffixEnds(s, i) ==
    Then(OptEnds(DEBUG, s, i), [e \in 0..Len(s) |-> OptEnds(RELEASE, s, e)])

\* -([0-9a-f]){8}-(DEBUG)?(RELEASE)?
CoreEnds(s, i) ==
    Then(Then(Then(LitEnds(Dash, s, i),
                   [e \in 0..Len(s) |-> HexEnds(s, e)]),
              [e \in 0..Len(s) |-> LitEnds(Dash, s, e)]),
         [e \in 0..Len(s) |-> SuffixEnds(s, e)])

\* the pattern without its (DEV)? group
RegexEndsNoDev(s, i) ==
    Then(Then(LeadEnds(s, i),
              [e \in 0..Len(s) |-> OptEnds(Dash, s, e)]),
         [e \in 0..Len(s) |-> CoreEnds(s, e)])

\* the whole pattern tried at offset i
RegexEnds(s, i) ==
    Then(Then(Then(LeadEnds(s, i),
                   [e \in 0..Len(s) |-> OptEnds(Dash, s, e)]),
              [e \in 0..Len(s) |-> OptEnds(DEV, s, e)]),
         [e \in 0..Len(s) |-> CoreEnds(s, e)])

NoMatch == [start |-> -1, end |-> -1]

\* pattern.search(s, p): the first offset from p on at which the pattern
\* matches, and there the first end the engine reaches
RECURSIVE Search(_, _)
Search(s, p) ==
    IF p > Len(s) THEN NoMatch
    ELSE LET ends == RegexEnds(s, p)
         IN  IF ends # << >> THEN [start |-> p, end |-> Head(ends)]
             ELSE Search(s, p + 1)

\* a search that resumes one byte after the start of m, inside the match
ResumeOverlapping(m) == m.start + 1

\* where finditer looks for the match after m (the pattern matches no empty
\* string, so the search always resumes at the end of m)
Resume(m) == m.end

-----------------------------------------------------------------------------
(* The language of the version regex, as a set of strings:                  *)
(*   lead* [-] [DEV] - hex{8} - [DEBUG] [RELEASE].                          *)
(* GrammarEnds(s, p) is the set of the ends e of the strings of the         *)
(* language that start at offset p of s, whatever order an engine would     *)
(* try them in.                                                             *)

Optional(lit) == {<< >>, lit}

GrammarEnds(s, p) ==
    LET leads == {l \in 0..(Len(s) - p) :
                    \A k \in 1..l : s[p + k] \in LeadClass}
        Fits(l, d, v, x, r) ==
            LET mid  == d \o v \o Dash
                tail == Dash \o x \o r
                hex  == p + l + Len(mid)
            IN  /\ StartsWith(s, p + l, mid)
                /\ hex + HexLen <= Len(s)
                /\ \A k \in 1..HexLen : s[hex + k] \in HexClass
                /\ StartsWith(s, hex + HexLen, tail)
        End(l, d, v, x, r) ==
            p + l + Len(d) + Len(v) + 1 + HexLen + 1 + Len(x) + Len(r)
    IN  UNION { UNION { UNION { UNION {
            {End(l, d, v, x, r) : r \in {y \in Optional(RELEASE) :
                                            Fits(l, d, v, x, y)}} :
            x \in Optional(DEBUG)} : v \in Optional(DEV)} :
            d \in Optional(Dash)} : l \in leads}

\* w is a string of the language
InGrammar(w) == Len(w) \in GrammarEnds(w, 0)

-----------------------------------------------------------------------------
(* bytes.decode("utf-8"): the code points of a well-formed UTF-8 sequence,  *)
(* a UnicodeDecodeError otherwise.                                          *)

IsCont(s, k) == k <= Len(s) /\ s[k] \in 128..191

\* the number of bytes of the character at s[k], 0 when it is ill-formed
CharLen(s, k) ==
    LET b == s[k] IN
    IF b < 128 THEN 1
    ELSE IF b \in 194..223 THEN (IF IsCont(s, k + 1) THEN 2 ELSE 0)
    ELSE IF b \in 224..239 THEN
        (IF /\ IsCont(s, k + 1) /\ IsCont(s, k + 2)
            /\ (b = 224 => s[k + 1] >= 160)
            /\ (b = 237 => s[k + 1] <= 159)
         THEN 3 ELSE 0)
    ELSE IF b \in 240..244 THEN
        (IF /\ IsCont(s, k + 1) /\ IsCont(s, k + 2) /\ IsCont(s, k + 3)
            /\ (b = 240 => s[k + 1] >= 144)
            /\ (b = 244 => s[k + 1] <= 143)
         THEN 4 ELSE 0)
    ELSE 0

CodePoint(s, k, n) ==
    IF n = 1 THEN s[k]
    ELSE IF n = 2 THEN (s[k] - 192) * 64 + (s[k + 1] - 128)
    ELSE IF n = 3 THEN
        (s[k] - 224) * 4096 + (s[k + 1] - 128) * 64 + (s[k + 2] - 128)
    ELSE (s[k] - 240) * 262144 + (s[k + 1] - 128) * 4096
         + (s[k + 2] - 128) * 64 + (s[k + 3] - 128)

DecodeError == <<-1>>

RECURSIVE Utf8Decode(_, _)
Utf8Decode(s, k) ==
    IF k > Len(s) THEN << >>
    ELSE LET n == CharLen(s, k) IN
         IF n = 0 THEN DecodeError
         ELSE LET rest == Utf8Decode(s, k + n) IN
              IF rest = DecodeError THEN DecodeError
              ELSE <<CodePoint(s, k, n)>> \o rest

\* what a print call writes: a message, a decoded match or the bytes of one
Line(kind, msg, data) == [kind |-> kind, msg |-> msg, data |-> data]
Say(msg) == Line("msg", msg, << >>)

\* lines 96-99: print the match decoded, or the bytes when decoding fails
MatchLine(text) ==
    IF Utf8Decode(text, 1) # DecodeError
    THEN Line("str", "", Utf8Decode(text, 1))
    ELSE Line("bytes", "", text)

-----------------------------------------------------------------------------
(* The inputs: command lines, and the files bin-info may be given.          *)

Commands == {"version", "flash", "recover", "bin-info", "reset"}

\* --bin: not given, a path os.path.isfile denies (nothing there, a
\* directory, a device such as /dev/null, a pipe), or a regular file
BinArgs == {"none", "missing", "file"}

\* the command lines taken: --force is given, if at all, to flash, the one
\* command that reads it (--serial and --timeout are handed to the driver
\* as they are)
ArgSets ==
    {a \in [command : Commands, bin : BinArgs, force : BOOLEAN] :
        a.force => a.command = "flash"}

HexRun == Bytes(<<"d", "e", "a", "d", "b", "e", "e", "f">>)
ShortRun == Bytes(<<"a", "b", "c", "d", "e", "f", "1">>)

\* the pieces files are put together from
Pieces ==
    { Bytes(<<"v">>), Bytes(<<"1">>), Dash, DEV, HexRun \o Dash, ShortRun,
      DEBUG, RELEASE, <<255>> }

RECURSIVE Concats(_)
Concats(n) ==
    IF n = 0 THEN {<< >>}
    ELSE LET shorter == Concats(n - 1)
         IN  shorter \cup {a \o b : a \in shorter, b \in Pieces}

Images == Concats(MaxPieces)

\* what a path that is no regular file yields when it can be read: nothing
\* (/dev/null), or the bytes written to it
OtherImages == {<< >>, Bytes(<<"1">>) \o Dash \o HexRun \o Dash \o DEBUG}

Concat(ps) ==
    LET f[k \in 0..Len(ps)] == IF k = 0 THEN << >> ELSE f[k - 1] \o ps[k]
    IN  f[Len(ps)]

\* the functions that can be entered: the commands __main__ dispatches
\* (lines 113-119, 131-132) and help, which is in no table and runs only
\* when the module is imported and help(args) called
Functions == Commands \cup {"help"}

\* nothing has run yet; entry is the function about to run
Start(entry) ==
    /\ pc = entry
    /\ pos = 0
    /\ matches = << >>
    /\ out = << >>
    /\ calls = << >>
    /\ bootstub = FALSE
    /\ err = "none"

\* lines 122-132: the command line parsed and its command about to run; or
\* help about to run, called with some args
Init ==
    /\ args \in ArgSets
    /\ \E entry \in {f \in Functions : f \in {args.command, "help"}} :
        /\ image \in (IF entry = "bin-info" /\ args.bin = "file"
                      THEN Images
                      ELSE IF entry = "bin-info" /\ args.bin = "missing"
                      THEN OtherImages ELSE {<< >>})
        /\ Start(entry)
    /\ parts = << >>

-----------------------------------------------------------------------------
(* The commands. A driver call returns or raises; a step that makes the     *)
(* calls cs makes the first n of them, and raises in the next when n is     *)
(* short of them all.                                                       *)

Raise(e) == /\ pc' = "raised" /\ err' = e

Println(ls) == out' = out \o ls

\* lines 7-19
Version ==
    /\ pc = "version"
    /\ LET cs == <<"Panda", "get_version", "get_signature", "get_serial",
                   "get_mcu_type">>
       IN  \E n \in 0..Len(cs) :
            /\ calls' = calls \o SubSeq(cs, 1, n)
            /\ IF n = Len(cs)
               THEN /\ Println(<<Say("Hardware info:"), Say("serial_number="),
                                 Say("mcu_type="), Say("Firmware info:"),
                                 Say("version="), Say("signature:"),
                                 Say("<signature>")>>)
                    /\ pc' = "done"
                    /\ err' = err
               ELSE /\ Raise("DriverError")
                    /\ out' = out
    /\ UNCHANGED <<args, image, pos, matches, bootstub, parts>>

\* lines 23-26 (and 50-53): --bin must name a file
BinCheck(next) ==
    /\ IF args.bin = "none" THEN Raise("ValueError: --bin is required")
       ELSE IF args.bin = "missing" THEN Raise("ValueError: not a file")
       ELSE pc' = next /\ err' = err
    /\ UNCHANGED <<args, image, pos, matches, out, calls, bootstub, parts>>

FlashCheck == pc = "flash" /\ BinCheck("flash_connect")

\* lines 28-29
FlashConnect ==
    /\ pc = "flash_connect"
    /\ LET cs == <<"Panda", "get_version">>
       IN  \E n \in 0..Len(cs), b \in BOOLEAN :
            /\ calls' = calls \o SubSeq(cs, 1, n)
            /\ bootstub' = IF n >= 1 THEN b ELSE bootstub
            /\ IF n = Len(cs)
               THEN /\ Println(<<Say("Current firmware version:")>>)
                    /\ pc' = "flash_uptodate"
                    /\ err' = err
               ELSE /\ Raise("DriverError")
                    /\ out' = out
    /\ UNCHANGED <<args, image, pos, matches, parts>>

\* lines 31-32: the message is printed when up_to_date returns false, and
\* the command goes on either way
FlashUpToDate ==
    /\ pc = "flash_uptodate"
    /\ IF args.force
       THEN /\ pc' = "flash_reset"
            /\ UNCHANGED <<calls, out, err>>
       ELSE \E r \in {"up_to_date=True", "up_to_date=False", "raise"} :
            IF r = "raise"
            THEN /\ Raise("DriverError")
                 /\ UNCHANGED <<calls, out>>
            ELSE /\ calls' = Append(calls, r)
                 /\ out' = IF ~(r = "up_to_date=True")
                           THEN Append(out, Say("Firmware is already up to date, use --force to flash anyway"))
                           ELSE out
                 /\ pc' = "flash_reset"
                 /\ err' = err
    /\ UNCHANGED <<args, image, pos, matches, bootstub, parts>>

\* lines 34-38
FlashReset ==
    /\ pc = "flash_reset"
    /\ \E r \in {"ok", "raise"}, b \in BOOLEAN, v \in {"ok", "raise"} :
        LET reset == ~bootstub
            stub  == IF reset /\ r = "ok" THEN b ELSE bootstub
            c1    == IF reset /\ r = "ok"
                     THEN <<"reset(enter_bootstub=True)">> ELSE << >>
        IN  /\ bootstub' = stub
            /\ IF reset /\ r = "raise"
               THEN /\ Raise("DriverError")
                    /\ calls' = calls
                    /\ Println(<<Say("Resetting to bootstub...")>>)
               ELSE IF ~stub
               THEN /\ Raise("AssertionError")
                    /\ calls' = calls \o c1
                    /\ Println(<<Say("Resetting to bootstub...")>>)
               ELSE IF v = "raise"
               THEN /\ Raise("DriverError")
                    /\ calls' = calls \o c1
                    /\ Println(<<Say("Resetting to bootstub...")>>)
               ELSE /\ calls' = (calls \o c1) \o <<"get_version">>
                    /\ Println(<<Say("Resetting to bootstub..."),
                                 Say("Bootstub version:")>>)
                    /\ pc' = "flash_read"
                    /\ err' = err
    /\ UNCHANGED <<args, image, pos, matches, parts>>

\* lines 40-41: the open may still fail
FlashRead ==
    /\ pc = "flash_read"
    /\ \E ok \in BOOLEAN :
        IF ok THEN pc' = "flash_static" /\ err' = err ELSE Raise("IOError")
    /\ UNCHANGED <<args, image, pos, matches, out, calls, bootstub, parts>>

\* lines 43-44
FlashStatic ==
    /\ pc = "flash_static"
    /\ Println(<<Say("Flashing panda firmware...")>>)
    /\ \E ok \in BOOLEAN :
        IF ok
        THEN /\ calls' = Append(calls, "flash_static")
             /\ pc' = "flash_reconnect"
             /\ err' = err
        ELSE /\ Raise("DriverError")
             /\ calls' = calls
    /\ UNCHANGED <<args, image, pos, matches, bootstub, parts>>

\* lines 45-46
FlashReconnect ==
    /\ pc = "flash_reconnect"
    /\ LET cs == <<"reconnect", "get_version">>
       IN  \E n \in 0..Len(cs) :
            /\ calls' = calls \o SubSeq(cs, 1, n)
            /\ IF n = Len(cs)
               THEN /\ Println(<<Say("New firmware version:")>>)
                    /\ pc' = "done"
                    /\ err' = err
               ELSE /\ Raise("DriverError")
                    /\ out' = out
    /\ UNCHANGED <<args, image, pos, matches, bootstub, parts>>

RecoverCheck == pc = "recover" /\ BinCheck("recover_connect")

\* lines 55-58
RecoverConnect ==
    /\ pc = "recover_connect"
    /\ \E r \in {"raise in Panda", "raise", "get_dfu_serial=None",
                 "get_dfu_serial"} :
        IF r = "raise in Panda"
        THEN /\ Raise("DriverError")
             /\ calls' = calls
        ELSE IF r = "raise"
        THEN /\ Raise("DriverError")
             /\ calls' = Append(calls, "Panda")
        ELSE IF r = "get_dfu_serial=None"
        THEN /\ Raise("ValueError: Could not get DFU serial")
             /\ calls' = calls \o <<"Panda", r>>
        ELSE /\ calls' = calls \o <<"Panda", r>>
             /\ pc' = "recover_reset"
             /\ err' = err
    /\ UNCHANGED <<args, image, pos, matches, out, bootstub, parts>>

\* lines 60-62
RecoverReset ==
    /\ pc = "recover_reset"
    /\ Println(<<Say("Resetting Panda to bootloader")>>)
    /\ LET cs == <<"reset(enter_bootstub=True)", "reset(enter_bootloader=True)">>
       IN  \E n \in 0..Len(cs) :
            /\ calls' = calls \o SubSeq(cs, 1, n)
            /\ IF n = Len(cs)
               THEN pc' = "recover_wait" /\ err' = err
               ELSE Raise("DriverError")
    /\ UNCHANGED <<args, image, pos, matches, bootstub, parts>>

\* lines 64-66 without the raise: the command goes on when DFU never shows
RecoverWaitNoRaise ==
    /\ pc = "recover_wait"
    /\ Println(<<Say("Waiting for DFU...")>>)
    /\ \E r \in {"wait_for_dfu=True", "wait_for_dfu=False"} :
        /\ calls' = Append(calls, r)
        /\ pc' = "recover_program"
        /\ err' = err
    /\ UNCHANGED <<args, image, pos, matches, bootstub, parts>>

\* lines 64-66
RecoverWait ==
    /\ pc = "recover_wait"
    /\ Println(<<Say("Waiting for DFU...")>>)
    /\ \E r \in {"raise", "wait_for_dfu=True", "wait_for_dfu=False"} :
        IF r = "raise"
        THEN /\ Raise("DriverError")
             /\ calls' = calls
        ELSE /\ calls' = Append(calls, r)
             /\ IF r = "wait_for_dfu=False"
                THEN Raise("ValueError: Timeout waiting for DFU")
                ELSE pc' = "recover_program" /\ err' = err
    /\ UNCHANGED <<args, image, pos, matches, bootstub, parts>>

\* lines 68-72
RecoverProgram ==
    /\ pc = "recover_program"
    /\ Println(<<Say("Connected to DFU, flashing bootstub...")>>)
    /\ \E r \in {"raise in PandaDFU", "IOError", "raise", "ok"} :
        IF r = "raise in PandaDFU"
        THEN /\ Raise("DriverError")
             /\ calls' = calls
        ELSE IF r = "IOError"
        THEN /\ Raise("IOError")
             /\ calls' = Append(calls, "PandaDFU")
        ELSE IF r = "raise"
        THEN /\ Raise("DriverError")
             /\ calls' = Append(calls, "PandaDFU")
        ELSE /\ calls' = calls \o <<"PandaDFU", "program_bootstub">>
             /\ pc' = "recover_finish"
             /\ err' = err
    /\ UNCHANGED <<args, image, pos, matches, bootstub, parts>>

\* lines 73-76
RecoverFinish ==
    /\ pc = "recover_finish"
    /\ \E ok \in BOOLEAN :
        IF ok
        THEN /\ calls' = Append(calls, "dfu.reset")
             /\ Println(<<Say("Resetting panda..."),
                          Say("DFU recovery successful"),
                          Say("Run the flash command to flash panda firmware")>>)
             /\ pc' = "done"
             /\ err' = err
        ELSE /\ Raise("DriverError")
             /\ calls' = calls
             /\ Println(<<Say("Resetting panda...")>>)
    /\ UNCHANGED <<args, image, pos, matches, bootstub, parts>>

\* lines 79-82
Reset ==
    /\ pc = "reset"
    /\ Println(<<Say("Resetting panda...")>>)
    /\ LET cs == <<"Panda", "reset()">>
       IN  \E n \in 0..Len(cs) :
            /\ calls' = calls \o SubSeq(cs, 1, n)
            /\ IF n = Len(cs)
               THEN pc' = "done" /\ err' = err
               ELSE Raise("DriverError")
    /\ UNCHANGED <<args, image, pos, matches, bootstub, parts>>

\* lines 86-94: bin_info does not ask whether the path is a file; whatever
\* the path is, open and read succeed or raise (nothing there, no permission,
\* a directory), before anything is printed
BinInfoOpen ==
    /\ pc = "bin-info"
    /\ IF args.bin = "none"
       THEN Raise("ValueError: --bin is required") /\ out' = out
       ELSE \E ok \in BOOLEAN :
            IF ok
            THEN /\ pc' = "bin_loop"
                 /\ err' = err
                 /\ Println(<<Say("Possible version matches:")>>)
            ELSE Raise("IOError") /\ out' = out
    /\ pos' = 0
    /\ UNCHANGED <<args, image, matches, calls, bootstub, parts>>

\* lines 95-99: the next match of the iterator, printed
BinInfoMatch ==
    /\ pc = "bin_loop"
    /\ LET m == Search(image, pos)
       IN  IF m = NoMatch
           THEN /\ pc' = "bin_signature"
                /\ UNCHANGED <<pos, matches, out>>
           ELSE /\ matches' = Append(matches, m)
                /\ pos' = Resume(m)
                /\ Println(<<MatchLine(Slice(image, m.start, m.end))>>)
                /\ pc' = pc
    /\ UNCHANGED <<args, image, calls, bootstub, err, parts>>

\* lines 101-102
BinInfoSignature ==
    /\ pc = "bin_signature"
    /\ \E ok \in BOOLEAN :
        IF ok
        THEN /\ calls' = Append(calls, "get_signature_from_firmware")
             /\ Println(<<Say("Signature:"), Say("<signature>")>>)
             /\ pc' = "done"
             /\ err' = err
        ELSE /\ Raise("DriverError")
             /\ calls' = calls
             /\ Println(<<Say("Signature:")>>)
    /\ UNCHANGED <<args, image, pos, matches, bootstub, parts>>

BinInfo == BinInfoOpen \/ BinInfoMatch \/ BinInfoSignature

\* lines 105-110: help reads nothing of args and calls no driver
Help ==
    /\ pc = "help"
    /\ Println(<<Say("version: print info about the current panda device"),
                 Say("flash --bin <path-to-bin>: flash path-to-bin to the device"),
                 Say("recover --bin <path-to-bootstub> [--timeout timeout]: flash path-to-bootstub via dfu mode, dfu timeout defaults to 60"),
                 Say("bin-info --bin <path-to-bin>: print version info of path-to-bin"),
                 Say("reset: reset panda")>>)
    /\ pc' = "done"
    /\ UNCHANGED <<args, image, pos, matches, calls, bootstub, err, parts>>

Next ==
    \/ Version
    \/ FlashCheck \/ FlashConnect \/ FlashUpToDate \/ FlashReset
    \/ FlashRead \/ FlashStatic \/ FlashReconnect
    \/ RecoverCheck \/ RecoverConnect \/ RecoverReset \/ RecoverWait
    \/ RecoverProgram \/ RecoverFinish
    \/ Reset
    \/ BinInfoOpen \/ BinInfoMatch \/ BinInfoSignature
    \/ Help

Spec == Init /\ [][Next]_vars

-----------------------------------------------------------------------------
(* Files made of version tags: one tag alone, or two tags with filler       *)
(* bytes (bytes the pattern has no use for) before, between and after.      *)

LeadBytes == {Ord("v"), Ord("1"), Ord(".")}

RECURSIVE Leads(_, _)
Leads(alphabet, n) ==
    IF n = 0 THEN {<< >>}
    ELSE LET shorter == Leads(alphabet, n - 1)
         IN  shorter \cup {Append(l, b) : l \in shorter, b \in alphabet}

Mids == {Dash, Dash \o Dash, Dash \o DEV \o Dash, DEV \o Dash}

Suffixes == {<< >>, DEBUG, RELEASE, DEBUG \o RELEASE}

TagsOver(leads, runs) ==
    {l \o m \o h \o Dash \o x :
        l \in leads, m \in Mids, h \in runs, x \in Suffixes}

\* v1.2.3-DEV-deadbeef-DEBUG
SampleTag ==
    Bytes(<<"v", "1", ".", "2", ".", "3">>) \o Dash \o DEV \o Dash
        \o HexRun \o Dash \o DEBUG

\* XX v1.0-aaaaaaaa-RELEASE YYZZ v2.0-bbbbbbbb-DEBUG, and nothing after
SampleParts ==
    << Bytes(<<"X", "X">>),
       Bytes(<<"v", "1", ".", "0", "-", "a", "a", "a", "a", "a", "a", "a",
               "a", "-">>) \o RELEASE,
       Bytes(<<"Y", "Y", "Z", "Z">>),
       Bytes(<<"v", "2", ".", "0", "-", "b", "b", "b", "b", "b", "b", "b",
               "b", "-">>) \o DEBUG,
       << >> >>

OneTags ==
    TagsOver(Leads(LeadBytes, MaxLead),
             {HexRun, Bytes(<<"0", "1", "2", "3", "0", "1", "2", "3">>)})
        \cup {SampleTag}

PairTags == TagsOver(Leads({Ord("v"), Ord("1")}, MaxLead), {HexRun})

TagParts ==
    {<<t>> : t \in OneTags}
        \cup {<<f, t, Bytes(<<"Y">>), u, g>> :
                f \in {<< >>, Bytes(<<"X", "X">>)}, t \in PairTags,
                u \in PairTags, g \in {<< >>, Bytes(<<"Z">>)}}
        \cup {SampleParts}

InitTags ==
    /\ args = [command |-> "bin-info", bin |-> "file", force |-> FALSE]
    /\ parts \in TagParts
    /\ image = Concat(parts)
    /\ Start(args.command)

SpecTags == InitTags /\ [][BinInfo]_vars

-----------------------------------------------------------------------------
(* What the scan of bin_info reports.                                       *)

Text(m) == Slice(image, m.start, m.end)

MatchTexts == [k \in 1..Len(matches) |-> Text(matches[k])]

\* finditer is exhausted: every match of the file has been reported
ScanDone == args.command = "bin-info" /\ pc = "bin_signature"

\* the index in a match of its last dash, the one that follows the hex
\* characters (0 when it has none)
LastDash(t) ==
    LET ds == {k \in 1..Len(t) : t[k] = Ord("-")}
    IN  IF ds = {} THEN 0 ELSE CHOOSE k \in ds : \A j \in ds : j <= k

SuffixOf(t) == SubSeq(t, LastDash(t) + 1, Len(t))

\* C1 as claimed: every reported match ends, after the dash that follows the
\* hex characters, with nothing, DEBUG or RELEASE: at most one of the two.
C1_SuffixAtMostOne ==
    \A k \in 1..Len(matches) :
        SuffixOf(MatchTexts[k]) \in {<< >>, DEBUG, RELEASE}

\* C1 as amended: every reported match ends, after the dash that follows the
\* hex characters, with an optional DEBUG followed by an optional RELEASE:
\* nothing, DEBUG, RELEASE or DEBUGRELEASE.
C1_SuffixDebugThenRelease ==
    \A k \in 1..Len(matches) :
        SuffixOf(MatchTexts[k]) \in {<< >>, DEBUG, RELEASE, DEBUG \o RELEASE}

\* a file whose tag carries both words, and one with the words the other way
\* round, of which only the first is part of the match
C1_Witness ==
    /\ ScanDone
    /\ Len(matches) = 1
    /\ \/ SuffixOf(MatchTexts[1]) = DEBUG \o RELEASE
       \/ /\ SuffixOf(MatchTexts[1]) = RELEASE
          /\ StartsWith(image, matches[1].end, DEBUG)

\* C2 as claimed: flash run without --force on a device that up_to_date
\* reports current says so and does not flash it.
C2_UpToDateNotFlashed ==
    ( /\ args.command = "flash"
      /\ ~args.force
      /\ \E k \in 1..Len(calls) : calls[k] = "up_to_date=True" )
    => /\ \A k \in 1..Len(calls) : calls[k] # "flash_static"
       /\ \E k \in 1..Len(out) :
            out[k] = Say("Firmware is already up to date, use --force to flash anyway")

\* C3: of a file made of filler, a tag, filler, a second tag and filler, the
\* scan reports exactly the two tags, in order, each at the offset where it
\* starts and with exactly its text.
C3_TwoTags ==
    (ScanDone /\ Len(parts) = 5) =>
        LET a == Len(parts[1])
            b == a + Len(parts[2])
            c == b + Len(parts[3])
            d == c + Len(parts[4])
        IN  /\ matches = <<[start |-> a, end |-> b], [start |-> c, end |-> d]>>
            /\ out = <<Say("Possible version matches:"),
                       Line("str", "", parts[2]), Line("str", "", parts[4])>>

C3_Witness ==
    /\ ScanDone
    /\ Len(parts) = 5
    /\ parts[1] # << >> /\ parts[3] # << >> /\ parts[5] # << >>
    /\ Len(matches) = 2
    /\ matches[1].start = Len(parts[1])

\* C4: each reported match is the longest string of the pattern's language
\* that starts at its offset, and no string of the language starts between
\* the end of the match before it (or the start of the file) and its offset.
C4_LeftmostLongest ==
    ScanDone =>
        \A k \in 1..Len(matches) :
            LET m    == matches[k]
                from == IF k = 1 THEN 0 ELSE matches[k - 1].end
            IN  /\ m.end \in GrammarEnds(image, m.start)
                /\ \A e \in GrammarEnds(image, m.start) : e <= m.end
                /\ \A p \in from..(m.start - 1) : GrammarEnds(image, p) = {}

\* a match that starts after skipped bytes, where the language has a shorter
\* string too
C4_Witness ==
    /\ ScanDone
    /\ Len(matches) >= 1
    /\ matches[1].start > 0
    /\ Cardinality(GrammarEnds(image, matches[1].start)) > 1

\* C5: the matches are reported in strictly increasing offset order and do
\* not overlap: each starts at or after the end of the one before it.
C5_IncreasingDisjoint ==
    /\ \A k \in 1..Len(matches) :
        0 <= matches[k].start /\ matches[k].start < matches[k].end
            /\ matches[k].end <= Len(image)
    /\ \A k \in 1..(Len(matches) - 1) :
        /\ matches[k].start < matches[k + 1].start
        /\ matches[k].end <= matches[k + 1].start

C5_Witness ==
    /\ ScanDone
    /\ Len(matches) >= 2
    /\ matches[2].start = matches[1].end

\* the offsets at which the file holds a dash, 7 hex characters and a dash
SevenHexAt ==
    {i \in 0..(Len(image) - 9) :
        /\ image[i + 1] = Ord("-")
        /\ \A j \in 2..8 : image[i + j] \in HexClass
        /\ image[i + 9] = Ord("-")}

\* C6: every reported match holds a dash, exactly 8 lowercase hex characters
\* and a dash, and a dash, 7 hex characters and a dash are never those of a
\* reported match.
C6_EightHex ==
    /\ \A k \in 1..Len(matches) :
        LET t == MatchTexts[k]
            c == LastDash(t)
        IN  /\ c >= 10
            /\ t[c - 9] = Ord("-")
            /\ \A j \in 1..8 : t[c - 9 + j] \in (48..57) \cup (97..102)
    /\ \A i \in SevenHexAt : \A k \in 1..Len(matches) :
        matches[k].start + LastDash(MatchTexts[k]) - 1 # i + 8

\* -abcdef1-deadbeef- : the 7 characters are passed over, the 8 reported
C6_Witness ==
    /\ ScanDone
    /\ SevenHexAt # {}
    /\ Len(matches) = 1
    /\ matches[1].start > Min(SevenHexAt)

\* C7: of a file that is exactly one string of the pattern's language the
\* scan reports exactly one match, at offset 0, whose text is the whole file.
C7_WholeFile ==
    (ScanDone /\ InGrammar(image)) =>
        /\ matches = <<[start |-> 0, end |-> Len(image)]>>
        /\ out = <<Say("Possible version matches:"), Line("str", "", image)>>

C7_Witness ==
    /\ ScanDone
    /\ parts = <<SampleTag>>
    /\ InGrammar(image)
    /\ matches = <<[start |-> 0, end |-> Len(SampleTag)]>>

\* C8: of a file that holds no string of the pattern's language the scan
\* reports no match, and no content makes the scan raise: bin_info fails, if
\* at all, before the scan (no --bin, or the open or read of the path, with
\* nothing printed yet) or after it (in the signature call).
C8_NoTagNoMatch ==
    /\ (ScanDone /\ \A p \in 0..Len(image) : GrammarEnds(image, p) = {})
            => matches = << >>
    /\ (args.command = "bin-info" /\ pc = "raised") =>
            \/ /\ err \in {"ValueError: --bin is required", "IOError"}
               /\ out = << >>
               /\ matches = << >>
            \/ /\ err = "DriverError"
               /\ out[Len(out)] = Say("Signature:")

\* a file with a near miss (7 hex characters between the dashes)
C8_Witness ==
    /\ ScanDone
    /\ matches = << >>
    /\ SevenHexAt # {}

\* C9: recover calls program_bootstub only after reset(enter_bootstub=True),
\* reset(enter_bootloader=True) and a wait_for_dfu that returned true, in
\* this order; issues no reset when get_dfu_serial returns None; raises
\* ValueError and never calls program_bootstub or dfu.reset when wait_for_dfu
\* returns false; and calls dfu.reset only after program_bootstub.
C9_RecoverOrder ==
    args.command = "recover" =>
        LET At(c) == {k \in 1..Len(calls) : calls[k] = c}
            Resets == At("reset(enter_bootstub=True)")
                        \cup At("reset(enter_bootloader=True)")
        IN  /\ \A i \in At("program_bootstub") :
                \E a \in At("reset(enter_bootstub=True)"),
                   b \in At("reset(enter_bootloader=True)"),
                   c \in At("wait_for_dfu=True") : a < b /\ b < c /\ c < i
            /\ At("get_dfu_serial=None") # {} => Resets = {}
            /\ At("wait_for_dfu=False") # {} =>
                /\ At("program_bootstub") = {}
                /\ At("dfu.reset") = {}
                /\ pc = "raised"
                /\ err = "ValueError: Timeout waiting for DFU"
            /\ \A i \in At("dfu.reset") :
                \E j \in At("program_bootstub") : j < i

C9_Witness ==
    /\ args.command = "recover"
    /\ pc = "done"
    /\ Len(calls) >= 2
    /\ calls[Len(calls)] = "dfu.reset"
    /\ calls[Len(calls) - 1] = "program_bootstub"

\* C10: every match is made of ASCII bytes, so each is printed decoded, as
\* text of the same characters, and never as bytes.
C10_AlwaysDecoded ==
    /\ \A k \in 1..Len(matches) :
        \A j \in 1..Len(MatchTexts[k]) : MatchTexts[k][j] < 128
    /\ \A k \in 1..Len(out) : out[k].kind # "bytes"
    /\ (args.command = "bin-info" /\ pc \in {"bin_loop", "bin_signature"}) =>
        /\ Len(out) = Len(matches) + 1
        /\ \A k \in 1..Len(matches) :
            out[k + 1] = Line("str", "", MatchTexts[k])

\* a match right after a byte that is not ASCII
C10_Witness ==
    /\ ScanDone
    /\ Len(matches) >= 1
    /\ matches[1].start > 0
    /\ image[matches[1].start] = 255

====
